---- MODULE Spec2Model ----
(***************************************************************************)
(* Model of the document chunking and consolidation pipeline of            *)
(* backend/src/common/services:                                            *)
(*   advanced-document-processor.py   (dict chunks, _optimize_chunks_...)  *)
(*   advanced_document_processor.py   (ChunkMetadata, _merge_chunks)       *)
(*   python-document-processor.py     (DocumentChunker)                    *)
(* Python lists are sequences; list index k of the code is position k+1.   *)
(* Strings are sequences of one-character strings.  Cosine similarities    *)
(* are integers in hundredths (0.8 is 80).                                 *)
(***************************************************************************)
EXTENDS Integers, Sequences, FiniteSets, TLC

VARIABLES
    pc,          \* position of process_document (advanced_document_processor.py)
    optDone,     \* TRUE once _optimize_chunks_semantically has returned
    chunks,      \* advanced-document-processor.py: the annotated chunk dicts
    mchunks,     \* advanced_document_processor.py: the annotated ChunkMetadata
    sim,         \* cosine_similarity(embeddings): sim[i][j], 0-based
    embOk,       \* FALSE when _generate_embeddings fell back to np.array([])
    optimized,   \* result of _optimize_chunks_semantically
    merged,      \* result of _merge_chunks
    result,      \* record returned by process_document
    cpc,         \* position of a chunking run: "off", "basic", "advanced", "done"
    text,        \* python-document-processor.py: the text given to create_chunks
    max_chunk_size,  \* DocumentChunker.max_chunk_size
    overlap_size,    \* DocumentChunker.overlap_size
    basic,       \* result of DocumentChunker.create_chunks
    sentences,   \* advanced_document_processor.py: _split_into_sentences(content)
    segOk,       \* FALSE when _split_into_sentences raises (spaCy and NLTK both fail)
    assembled,   \* result of _create_intelligent_chunks (ChunkMetadata list)
    spans,       \* advanced-document-processor.py: where text_splitter cut each chunk
    located,     \* the chunk dicts of _create_intelligent_chunks, with their offsets
    env,         \* one call of an entry point: its arguments and what fails during it
    outcome      \* what that call returned or raised

consVars == <<pc, optDone, chunks, mchunks, sim, embOk, optimized, merged, result>>

chunkVars == <<cpc, text, max_chunk_size, overlap_size, basic, sentences, segOk, assembled,
              spans, located>>

callVars == <<env, outcome>>

vars == <<consVars, chunkVars, callVars>>

-----------------------------------------------------------------------------
(* Bounds and inputs *)

MaxChunks == 3

DocId == "doc"

Scores == {70, 80, 90}

Letters == <<"a", "b", "c", "d", "e", "f">>

\* the annotations of one chunk: keywords and importance_score (hundredths)
AnnotChoices == {[kw |-> <<"k0">>, imp |-> 50], [kw |-> <<"k1">>, imp |-> 0]}

\* 0.8, in hundredths
SimThreshold == 80

Min(a, b) == IF a < b THEN a ELSE b

Max(a, b) == IF a > b THEN a ELSE b

Range(s) == {s[k] : k \in 1..Len(s)}

-----------------------------------------------------------------------------
(* A call ends by returning a value or by raising.                           *)

Returned(v) == [state |-> "returned", value |-> v]

Raised(x) == [state |-> "raised", exc |-> x]

Pending == [state |-> "pending"]

\* Python's None
None == "<None>"

-----------------------------------------------------------------------------
(* Python helpers *)

RECURSIVE JoinWith(_, _)
\* sep.join(parts)
JoinWith(parts, sep) ==
    IF Len(parts) = 0 THEN <<>>
    ELSE IF Len(parts) = 1 THEN parts[1]
    ELSE parts[1] \o sep \o JoinWith(Tail(parts), sep)

\* " ".join(parts)
JoinSpace(parts) == JoinWith(parts, <<" ">>)

RECURSIVE Flatten(_)
\* the concatenation of a sequence of lists (repeated list.extend)
Flatten(lists) ==
    IF Len(lists) = 0 THEN <<>> ELSE lists[1] \o Flatten(Tail(lists))

RECURSIVE FirstSeen(_)
\* the members of set(xs) in the order set.add first saw them
FirstSeen(xs) ==
    IF Len(xs) = 0 THEN <<>>
    ELSE LET h == FirstSeen(SubSeq(xs, 1, Len(xs) - 1))
         IN  IF xs[Len(xs)] \in Range(h) THEN h ELSE Append(h, xs[Len(xs)])

\* list(set(xs)): the distinct elements of xs, in the iteration order of the
\* set.  The slot of a str in the hash table follows its hash, which is seeded
\* per process, and, when two hashes collide, the order the members were
\* added in: layout[ins] is the iteration order the process gives to the set
\* whose members were added in the order ins.  A set of at most one member
\* has one order.
ListOfSet(xs, layout) ==
    LET ins == FirstSeen(xs)
    IN  IF Len(ins) <= 1 THEN ins ELSE layout[ins]

\* f"{document_id}_chunk_{index}"
ChunkId(doc, index) == <<doc, "chunk", index>>

MergedId_chunkNamespace(doc, i) == ChunkId(doc, i + 1)

\* f"{document_id}_merged_{i}"
MergedId(doc, i) == <<doc, "merged", i>>

-----------------------------------------------------------------------------
(* advanced-document-processor.py: _optimize_chunks_semantically *)

IsSimilar_ge(S, i, j) == S[i][j] >= SimThreshold

\* similarity_matrix[i][j] > 0.8
IsSimilar(S, i, j) == S[i][j] > SimThreshold

RECURSIVE OptScan(_, _, _, _, _)
\* the inner loop, lines 356-359: returns <<similar_chunks tail, used_indices>>
OptScan(S, n, i, j, used) ==
    IF j > n - 1 THEN <<<<>>, used>>
    ELSE IF j \notin used /\ IsSimilar(S, i, j)
         THEN LET r == OptScan(S, n, i, j + 1, used \cup {j})
              IN  <<<<j>> \o r[1], r[2]>>
         ELSE OptScan(S, n, i, j + 1, used)

OptMergedFrom_noAnchor(cs, similar) ==
    [k \in 1..(Len(similar) - 1) |-> cs[similar[k + 1] + 1].chunk_id]

\* merged_metadata['merged_from'], line 365
OptMergedFrom(cs, similar) ==
    [k \in 1..Len(similar) |-> cs[similar[k] + 1].chunk_id]

\* d.copy() followed by d[key] = value, lines 364-365: the entries of d, and
\* value under key
DictWith(d, key, value) ==
    [k \in DOMAIN d \cup {key} |-> IF k = key THEN value ELSE d[k]]

OptMergedChunk_lastMetadata(cs, i, similar) ==
    LET anchor == cs[similar[1] + 1]
        m == cs[similar[Len(similar)] + 1].metadata
    IN  [chunk_id    |-> MergedId(anchor.document_id, i),
         document_id |-> anchor.document_id,
         content     |-> JoinSpace([k \in 1..Len(similar) |-> cs[similar[k] + 1].content]),
         metadata    |-> DictWith(m, "merged_from", OptMergedFrom(cs, similar))]

\* the merged chunk, lines 363-372
OptMergedChunk(cs, i, similar) ==
    LET anchor == cs[similar[1] + 1]
        m == anchor.metadata
    IN  [chunk_id    |-> MergedId(anchor.document_id, i),
         document_id |-> anchor.document_id,
         content     |-> JoinSpace([k \in 1..Len(similar) |-> cs[similar[k] + 1].content]),
         metadata    |-> DictWith(m, "merged_from", OptMergedFrom(cs, similar))]

OptAppend_front(out, c) == <<c>> \o out

\* optimized_chunks.append(...)
OptAppend(out, c) == Append(out, c)

RECURSIVE OptLoop(_, _, _, _, _)
\* the outer loop, lines 350-375
OptLoop(cs, S, i, used, out) ==
    IF i > Len(cs) - 1 THEN out
    ELSE IF i \in used THEN OptLoop(cs, S, i + 1, used, out)
    ELSE LET r == OptScan(S, Len(cs), i, i + 1, used)
             similar == <<i>> \o r[1]
         IN  IF Len(similar) > 1
             THEN OptLoop(cs, S, i + 1, r[2], OptAppend(out, OptMergedChunk(cs, i, similar)))
             ELSE OptLoop(cs, S, i + 1, r[2], OptAppend(out, cs[i + 1]))

_optimize_chunks_semantically(cs, S) ==
    IF Len(cs) <= 1 THEN cs ELSE OptLoop(cs, S, 0, {}, <<>>)

-----------------------------------------------------------------------------
(* advanced_document_processor.py: _merge_chunks *)

MergeUnused_all(j, used) == TRUE

\* j not in used_indices, line 442
MergeUnused(j, used) == j \notin used

RECURSIVE MergeScan(_, _, _, _, _)
\* similar_indices, lines 440-443
MergeScan(S, n, i, j, used) ==
    IF j > n - 1 THEN <<>>
    ELSE IF MergeUnused(j, used) /\ S[i][j] > SimThreshold
         THEN <<j>> \o MergeScan(S, n, i, j + 1, used)
         ELSE MergeScan(S, n, i, j + 1, used)

RECURSIVE SeqMax(_)
SeqMax(s) == IF Len(s) = 1 THEN s[1] ELSE Max(s[1], SeqMax(Tail(s)))

\* the inputs hold one legal term, one case reference and one statute
\* reference: no set of them has two members, and no layout is looked up
NoLayout == <<>>

\* the merged ChunkMetadata, lines 447-480.  keywords is
\* list(set(merged_keywords)), line 473: the strings of the set, laid out in
\* the iteration order of the set.  That order follows the hashes of the
\* strings, which are seeded per process, so each permutation of the set is a
\* possible list; the field holds the set, whose size is the length of the
\* list and whose members are its entries.
MergeMergedChunk(cs, i, similar) ==
    LET chunk == cs[i + 1]
        group == <<i>> \o similar
        field(f) == [k \in 1..Len(group) |-> cs[group[k] + 1][f]]
    IN  [chunk_id         |-> chunk.chunk_id,
         document_id      |-> chunk.document_id,
         content          |-> JoinSpace(field("content")),
         start_position   |-> chunk.start_position,
         end_position     |-> cs[similar[Len(similar)] + 1].end_position,
         chunk_index      |-> chunk.chunk_index,
         entities         |-> Flatten(field("entities")),
         keywords         |-> Range(Flatten(field("keywords"))),
         sentiment        |-> chunk.sentiment,
         importance_score |-> SeqMax(field("importance_score")),
         legal_terms      |-> ListOfSet(Flatten(field("legal_terms")), NoLayout),
         case_references  |-> ListOfSet(Flatten(field("case_references")), NoLayout),
         statute_references |->
             ListOfSet(Flatten(field("statute_references")), NoLayout)]

RECURSIVE MergeLoop(_, _, _, _, _)
\* the loop, lines 435-485
MergeLoop(cs, S, i, used, out) ==
    IF i > Len(cs) - 1 THEN out
    ELSE IF i \in used THEN MergeLoop(cs, S, i + 1, used, out)
    ELSE LET similar == MergeScan(S, Len(cs), i, i + 1, used)
             used2 == used \cup Range(similar) \cup {i}
         IN  IF Len(similar) > 0
             THEN MergeLoop(cs, S, i + 1, used2,
                            Append(out, MergeMergedChunk(cs, i, similar)))
             ELSE MergeLoop(cs, S, i + 1, used2, Append(out, cs[i + 1]))

\* ok is FALSE when embeddings is np.array([]): cosine_similarity raises and
\* the except branch returns chunks
_merge_chunks(cs, S, ok) ==
    IF Len(cs) <= 1 THEN cs
    ELSE IF ~ok THEN cs
    ELSE MergeLoop(cs, S, 0, {}, <<>>)

\* one entry of result['chunks'], lines 160-173
SerializeChunk(c) ==
    [chunk_id         |-> c.chunk_id,
     content          |-> c.content,
     start_position   |-> c.start_position,
     end_position     |-> c.end_position,
     chunk_index      |-> c.chunk_index,
     entities         |-> c.entities,
     keywords         |-> c.keywords,
     legal_terms      |-> c.legal_terms,
     case_references  |-> c.case_references,
     statute_references |-> c.statute_references,
     importance_score |-> c.importance_score,
     sentiment        |-> c.sentiment]

\* the success record, lines 154-183
ProcessResult(ms) ==
    [success       |-> TRUE,
     document_id   |-> DocId,
     total_chunks  |-> Len(ms),
     chunks        |-> [k \in 1..Len(ms) |-> SerializeChunk(ms[k])],
     processing_method |-> "advanced"]

-----------------------------------------------------------------------------
(* Python str operations, on sequences of characters *)

WhitespaceChars == {" ", "\n", "\t"}

DigitChars == {"0", "1", "2", "3", "4", "5", "6", "7", "8", "9"}

SentenceEnd == {".", "!", "?"}

IsWs(c) == c \in WhitespaceChars

\* s[a:b] for 0 <= a, b (Python clamps both to len(s))
Slice(s, a, b) ==
    LET lo == Min(a, Len(s))
        hi == Min(b, Len(s))
    IN  IF hi <= lo THEN <<>> ELSE SubSeq(s, lo + 1, hi)

\* s[k:] for any integer k: a negative k counts from the end
SliceFrom(s, k) ==
    IF k >= 0 THEN Slice(s, k, Len(s))
    ELSE Slice(s, Max(Len(s) + k, 0), Len(s))

RECURSIVE LStrip(_)
LStrip(s) == IF Len(s) > 0 /\ IsWs(s[1]) THEN LStrip(Tail(s)) ELSE s

RECURSIVE RStrip(_)
RStrip(s) ==
    IF Len(s) > 0 /\ IsWs(s[Len(s)]) THEN RStrip(SubSeq(s, 1, Len(s) - 1)) ELSE s

\* s.strip()
Strip(s) == RStrip(LStrip(s))

RECURSIVE RunLen(_, _, _)
\* the length of the longest run of characters of S that starts at s[p]
RunLen(s, p, S) ==
    IF p <= Len(s) /\ s[p] \in S THEN 1 + RunLen(s, p + 1, S) ELSE 0

\* TRUE when lit occurs in s at position p (1-based)
LitAt(s, p, lit) ==
    /\ p + Len(lit) - 1 <= Len(s)
    /\ \A k \in 1..Len(lit) : s[p + k - 1] = lit[k]

\* len(s.split()): the number of maximal runs of non-whitespace
TokenCount(s) ==
    Cardinality({k \in 1..Len(s) : ~IsWs(s[k]) /\ (k = 1 \/ IsWs(s[k - 1]))})

RECURSIVE Find(_, _, _)
\* s.find(sub), searching from 0-based position p; -1 when absent
Find(s, sub, p) ==
    IF p + Len(sub) > Len(s) THEN -1
    ELSE IF LitAt(s, p + 1, sub) THEN p
    ELSE Find(s, sub, p + 1)

-----------------------------------------------------------------------------
(* python-document-processor.py: DocumentChunker *)

RECURSIVE CollapseWs(_)
\* re.sub(r'\s+', ' ', text), line 35
CollapseWs(s) ==
    IF Len(s) = 0 THEN <<>>
    ELSE IF IsWs(s[1])
         THEN <<" ">> \o CollapseWs(SliceFrom(s, RunLen(s, 1, WhitespaceChars)))
         ELSE <<s[1]>> \o CollapseWs(Tail(s))

\* re.sub(r'^\d+\s*$', '', text, flags=re.MULTILINE), line 37, on a text
\* without line breaks: the pattern can match only the whole text
DropPageNumber(s) ==
    LET d == RunLen(s, 1, DigitChars)
    IN  IF d > 0 /\ d + RunLen(s, d + 1, {" "}) = Len(s) THEN <<>> ELSE s

PageLit == <<"P", "a", "g", "e", " ">>

OfLit == <<" ", "o", "f", " ">>

\* the length of the match of 'Page \d+ of \d+' at position p, or 0
PageOfMatch(s, p) ==
    IF ~LitAt(s, p, PageLit) THEN 0
    ELSE LET d1 == RunLen(s, p + 5, DigitChars)
         IN  IF d1 = 0 \/ ~LitAt(s, p + 5 + d1, OfLit) THEN 0
             ELSE LET d2 == RunLen(s, p + 9 + d1, DigitChars)
                  IN  IF d2 = 0 THEN 0 ELSE 9 + d1 + d2

RECURSIVE DropPageOf(_)
\* re.sub(r'Page \d+ of \d+', '', text), line 39
DropPageOf(s) ==
    IF Len(s) = 0 THEN <<>>
    ELSE IF PageOfMatch(s, 1) > 0 THEN DropPageOf(SliceFrom(s, PageOfMatch(s, 1)))
    ELSE <<s[1]>> \o DropPageOf(Tail(s))

\* the characters U+00C2 and U+00A9 of the pattern, then a space
CopyrightLit == <<"A-circumflex", "copyright-sign", " ">>

RECURSIVE DropCopyright(_)
\* re.sub(CopyrightLit + r'\d+.*', '', text), line 40: from the match to the end
DropCopyright(s) ==
    IF Len(s) = 0 THEN <<>>
    ELSE IF LitAt(s, 1, CopyrightLit) /\ RunLen(s, 4, DigitChars) > 0 THEN <<>>
    ELSE <<s[1]>> \o DropCopyright(Tail(s))

\* DocumentChunker.preprocess_text, lines 32-41
preprocess_text(s) == Strip(DropCopyright(DropPageOf(DropPageNumber(CollapseWs(s)))))

RECURSIVE SplitSentences(_, _)
\* re.split(r'(?<=[.!?])\s+', s), line 48: cur is the piece being read
SplitSentences(s, cur) ==
    IF Len(s) = 0 THEN <<cur>>
    ELSE IF IsWs(s[1]) /\ Len(cur) > 0 /\ cur[Len(cur)] \in SentenceEnd
         THEN <<cur>> \o SplitSentences(SliceFrom(s, RunLen(s, 1, WhitespaceChars)), <<>>)
         ELSE SplitSentences(Tail(s), Append(cur, s[1]))

\* the chunk dict, lines 62-76 and 89-103
BasicChunk(current_chunk, start_pos, chunk_index) ==
    [chunkText  |-> Strip(current_chunk),
     startPos   |-> start_pos,
     endPos     |-> start_pos + Len(current_chunk),
     tokenCount |-> TokenCount(current_chunk),
     metadata   |-> [chunkIndex |-> chunk_index, confidence |-> 100, language |-> "en"]]

\* overlap_text, line 80
OverlapText(current_chunk, ov) ==
    IF Len(current_chunk) > ov THEN SliceFrom(current_chunk, -ov) ELSE current_chunk

NextStart_back(start_pos, current_chunk, new_chunk, overlap_text, sentence) ==
    start_pos - Len(overlap_text)

\* start_pos after a seal, line 82 (new_chunk is the new current_chunk)
NextStart(start_pos, current_chunk, new_chunk, overlap_text, sentence) ==
    start_pos + Len(new_chunk) - Len(overlap_text) - Len(sentence)

RECURSIVE ChunkLoop(_, _, _, _, _, _, _)
\* the loop over sentences and the final chunk, lines 55-104
ChunkLoop(sents, mx, ov, current_chunk, start_pos, chunk_index, out) ==
    IF Len(sents) = 0
    THEN IF Len(Strip(current_chunk)) > 0
         THEN Append(out, BasicChunk(current_chunk, start_pos, chunk_index))
         ELSE out
    ELSE LET sentence == sents[1]
         IN  IF Len(Strip(sentence)) = 0
             THEN ChunkLoop(Tail(sents), mx, ov, current_chunk, start_pos, chunk_index, out)
             ELSE IF Len(current_chunk) + Len(sentence) > mx /\ Len(current_chunk) > 0
             THEN LET overlap_text == OverlapText(current_chunk, ov)
                      new_chunk == overlap_text \o <<" ">> \o sentence
                  IN  ChunkLoop(Tail(sents), mx, ov, new_chunk,
                                NextStart(start_pos, current_chunk, new_chunk,
                                          overlap_text, sentence),
                                chunk_index + 1,
                                Append(out, BasicChunk(current_chunk, start_pos, chunk_index)))
             ELSE ChunkLoop(Tail(sents), mx, ov,
                            IF Len(current_chunk) > 0
                            THEN current_chunk \o <<" ">> \o sentence ELSE sentence,
                            start_pos, chunk_index, out)

\* DocumentChunker.create_chunks, lines 43-106
create_chunks(s, mx, ov) ==
    ChunkLoop(SplitSentences(preprocess_text(s), <<>>), mx, ov, <<>>, 0, 0, <<>>)

-----------------------------------------------------------------------------
(* advanced_document_processor.py: _create_intelligent_chunks.  A sentence   *)
(* is the token [sent |-> its index, len |-> its length]; a string is a      *)
(* sequence of sentence tokens and space tokens.                             *)

OptimalChunkSize == 1000

\* the " " that joins two sentences
SpaceTok == [sent |-> 0, len |-> 1]

TokLen(t) == t.len

RECURSIVE StrLen(_)
\* len(s) of a token string
StrLen(s) == IF Len(s) = 0 THEN 0 ELSE TokLen(s[1]) + StrLen(Tail(s))

\* ChunkMetadata(...), lines 223-238 and 250-265
AdvChunk(doc, current_chunk, chunk_start, chunk_index) ==
    [chunk_id         |-> ChunkId(doc, chunk_index),
     document_id      |-> doc,
     content          |-> current_chunk,
     start_position   |-> chunk_start,
     end_position     |-> chunk_start + StrLen(current_chunk),
     chunk_index      |-> chunk_index,
     entities         |-> <<>>,
     keywords         |-> <<>>,
     importance_score |-> 0]

\* chunk_start after a seal, line 243 (new_chunk is the new current_chunk)
AdvNextStart(chunk_start, new_chunk, sentence) ==
    chunk_start + StrLen(new_chunk) - TokLen(sentence)

RECURSIVE AdvLoop(_, _, _, _, _, _)
\* the loop over sentences and the last chunk, lines 219-266
AdvLoop(sents, doc, current_chunk, chunk_start, chunk_index, out) ==
    IF Len(sents) = 0
    THEN IF Len(current_chunk) > 0
         THEN Append(out, AdvChunk(doc, current_chunk, chunk_start, chunk_index))
         ELSE out
    ELSE LET sentence == sents[1]
         IN  IF StrLen(current_chunk) + TokLen(sentence) > OptimalChunkSize
                /\ Len(current_chunk) > 0
             THEN LET new_chunk == <<sentence>>
                  IN  AdvLoop(Tail(sents), doc, new_chunk,
                              AdvNextStart(chunk_start, new_chunk, sentence),
                              chunk_index + 1,
                              Append(out, AdvChunk(doc, current_chunk, chunk_start, chunk_index)))
             ELSE AdvLoop(Tail(sents), doc,
                          IF Len(current_chunk) > 0
                          THEN current_chunk \o <<SpaceTok>> \o <<sentence>> ELSE <<sentence>>,
                          chunk_start, chunk_index, out)

SimpleChunkSize == 1000

SimpleOverlap == 200

\* content[i:i + chunk_size] of a content of n characters, as one token
RawSlice(n, i) == [sent |-> 0, len |-> Min(i + SimpleChunkSize, n) - i, at |-> i]

RECURSIVE SimpleLoop(_, _, _, _)
\* for i in range(0, len(content), chunk_size - overlap), lines 500-518
SimpleLoop(n, doc, i, out) ==
    IF i >= n THEN out
    ELSE LET step == SimpleChunkSize - SimpleOverlap
             c == [chunk_id         |-> ChunkId(doc, i \div step),
                   document_id      |-> doc,
                   content          |-> <<RawSlice(n, i)>>,
                   start_position   |-> i,
                   end_position     |-> Min(i + SimpleChunkSize, n),
                   chunk_index      |-> i \div step,
                   entities         |-> <<>>,
                   keywords         |-> <<>>,
                   importance_score |-> 0]
         IN  SimpleLoop(n, doc, i + step, Append(out, c))

\* _create_simple_chunks, lines 493-524, for a content of n characters
create_simple_chunks(n, doc) == SimpleLoop(n, doc, 0, <<>>)

\* _create_intelligent_chunks, lines 207-273: sents are the sentences of line
\* 211, n is len(content); ok is FALSE when line 211 raises
create_intelligent_chunks(sents, n, ok, doc) ==
    IF ok THEN AdvLoop(sents, doc, <<>>, 0, 0, <<>>)
    ELSE create_simple_chunks(n, doc)

-----------------------------------------------------------------------------
(* Inputs of a chunking run *)

MaxTextLen == 5

MaxSentences == 3

Alphabet == {"a", ".", " "}

MaxSizes == {2, 3, 4}

Overlaps == {0, 1, 2}

SentLens == {400, 600, 1001}

\* every string over Alphabet of length at most MaxTextLen
SmallTexts == UNION {[1..n -> Alphabet] : n \in 0..MaxTextLen}

SentencePool == {<<"a", ".">>, <<"a", "a", ".">>}

\* up to MaxSentences sentences of SentencePool, joined by single spaces
SentenceTexts ==
    {JoinSpace(ss) : ss \in UNION {[1..n -> SentencePool] : n \in 1..MaxSentences}}

\* texts that the header and footer patterns of preprocess_text match
BoilerplateTexts ==
    {<<"1", "2", " ">>,
     <<"P", "a", "g", "e", " ", "1", " ", "o", "f", " ", "2">>,
     <<"a", ".", " ", "P", "a", "g", "e", " ", "1", " ", "o", "f", " ", "2", " ", "a", ".">>,
     <<"a", ".", "\n", "\n", "a", ".", " ", "A-circumflex", "copyright-sign", " ", "9", " ", "a">>}

Texts == SmallTexts \cup SentenceTexts \cup BoilerplateTexts

\* the sentence tokens of a document of n sentences with the given lengths
SentenceLists ==
    UNION {{[k \in 1..n |-> [sent |-> k, len |-> ls[k]]] : ls \in [1..n -> SentLens]}
             : n \in 0..MaxSentences}

\* the content of an assembled document: its sentences joined by single spaces
AssembledText == JoinWith([k \in 1..Len(sentences) |-> <<sentences[k]>>], <<SpaceTok>>)

\* no entry point is being called
CallsOff ==
    /\ env = [entry |-> "none"]
    /\ outcome = [state |-> "none"]

ConsolidationOff ==
    /\ pc = "off"
    /\ optDone = TRUE
    /\ chunks = <<>>
    /\ mchunks = <<>>
    /\ sim = <<>>
    /\ embOk = TRUE
    /\ optimized = <<>>
    /\ merged = <<>>
    /\ result = [success |-> FALSE]

InitBasic ==
    /\ cpc = "basic"
    /\ text \in Texts
    /\ max_chunk_size \in MaxSizes
    /\ overlap_size \in Overlaps
    /\ basic = <<>>
    /\ sentences = <<>>
    /\ segOk = TRUE
    /\ assembled = <<>>
    /\ spans = <<>>
    /\ located = <<>>

InitAdvanced ==
    /\ cpc = "advanced"
    /\ text = <<>>
    /\ max_chunk_size = 1000
    /\ overlap_size = 200
    /\ basic = <<>>
    /\ sentences \in SentenceLists
    /\ segOk \in BOOLEAN
    /\ assembled = <<>>
    /\ spans = <<>>
    /\ located = <<>>

InitChunker == ConsolidationOff /\ CallsOff /\ (InitBasic \/ InitAdvanced)

\* process_document, line 238 of python-document-processor.py
CreateChunks ==
    /\ cpc = "basic"
    /\ basic' = create_chunks(text, max_chunk_size, overlap_size)
    /\ cpc' = "basic_done"
    /\ UNCHANGED <<text, max_chunk_size, overlap_size, sentences, segOk, assembled, spans, located>>
    /\ UNCHANGED consVars
    /\ UNCHANGED callVars

\* process_document, line 135 of advanced_document_processor.py
Assemble ==
    /\ cpc = "advanced"
    /\ assembled' = create_intelligent_chunks(sentences, StrLen(AssembledText), segOk, DocId)
    /\ cpc' = "advanced_done"
    /\ UNCHANGED <<text, max_chunk_size, overlap_size, basic, sentences, segOk, spans, located>>
    /\ UNCHANGED consVars
    /\ UNCHANGED callVars

NextChunker == CreateChunks \/ Assemble

SpecChunker == InitChunker /\ [][NextChunker]_vars

-----------------------------------------------------------------------------
(* advanced-document-processor.py: _create_intelligent_chunks, the offsets.  *)
(* text_splitter (langchain) cuts content into basic_chunks; spans[k] is the *)
(* half-open span <<p, q>> of content that basic_chunks[k] was cut from.     *)

MaxContentLen == 4

MaxSplits == 2

SplitAlphabet == {"a", " "}

Contents == UNION {[1..n -> SplitAlphabet] : n \in 1..MaxContentLen}

SpansOf(n) == {sp \in (0..n) \X (0..n) : sp[1] < sp[2]}

\* the chunks are cut in document order, may overlap, and leave out nothing
\* but whitespace
SpanLists(content) ==
    {sl \in UNION {[1..m -> SpansOf(Len(content))] : m \in 0..MaxSplits} :
        /\ \A k \in 1..(Len(sl) - 1) : sl[k][1] <= sl[k + 1][1]
        /\ \A x \in 1..Len(content) :
              \/ IsWs(content[x])
              \/ \E k \in 1..Len(sl) : sl[k][1] < x /\ x <= sl[k][2]}

\* basic_chunks, line 257
BasicChunks(content, sl) == [k \in 1..Len(sl) |-> Slice(content, sl[k][1], sl[k][2])]

\* content.find(chunk_text), line 297
StartChar(content, chunk_text) == Find(content, chunk_text, 0)

\* chunk_data, lines 293-325, without the fields spaCy fills; the embedding
\* of chunk_text (line 263) is named by the index of the chunk
LocatedChunk(content, doc, i, chunk_text) ==
    [chunk_id    |-> ChunkId(doc, i),
     document_id |-> doc,
     content     |-> chunk_text,
     metadata    |-> [chunk_index |-> i,
                      start_char  |-> StartChar(content, chunk_text),
                      end_char    |-> StartChar(content, chunk_text) + Len(chunk_text),
                      word_count  |-> TokenCount(chunk_text),
                      semantic_embedding |-> i]]

RECURSIVE LocateLoop(_, _, _, _, _)
\* for i, chunk_text in enumerate(basic_chunks), lines 260-327
LocateLoop(content, doc, bcs, i, out) ==
    IF i > Len(bcs) - 1 THEN out
    ELSE IF Len(Strip(bcs[i + 1])) = 0
         THEN LocateLoop(content, doc, bcs, i + 1, out)
         ELSE LocateLoop(content, doc, bcs, i + 1,
                         Append(out, LocatedChunk(content, doc, i, bcs[i + 1])))

Pairs(n) == {p \in (0..(n - 1)) \X (0..(n - 1)) : p[1] < p[2]}

\* cosine_similarity(embeddings_matrix), lines 340-344: the similarities of
\* the embeddings the chunks of cs carry
CosineSimilarity(cs) ==
    [p \in 0..(Len(cs) - 1) |-> [q \in 0..(Len(cs) - 1) |->
        sim[cs[p + 1].metadata.semantic_embedding][cs[q + 1].metadata.semantic_embedding]]]

\* the indexes of the chunks that are embedded: line 261 skips the blank ones
Embedded(bcs) == {i \in 0..(Len(bcs) - 1) : Len(Strip(bcs[i + 1])) > 0}

\* cosine_similarity of the embeddings of the chunks of bcs: equal texts have
\* equal embeddings, hence similarity 1.0; tri gives the other pairs
SplitSimilarity(bcs, tri) ==
    [i \in Embedded(bcs) |-> [j \in Embedded(bcs) |->
        IF bcs[i + 1] = bcs[j + 1] THEN 100 ELSE tri[<<Min(i, j), Max(i, j)>>]]]

InitSplit ==
    /\ pc = "off"
    /\ optDone = TRUE
    /\ chunks = <<>>
    /\ mchunks = <<>>
    /\ embOk = TRUE
    /\ optimized = <<>>
    /\ merged = <<>>
    /\ result = [success |-> FALSE]
    /\ CallsOff
    /\ cpc = "split"
    /\ text \in Contents
    /\ spans \in SpanLists(text)
    /\ \E tri \in [Pairs(Len(spans)) -> Scores] :
          sim = SplitSimilarity(BasicChunks(text, spans), tri)
    /\ max_chunk_size = 1000
    /\ overlap_size = 200
    /\ basic = <<>>
    /\ sentences = <<>>
    /\ segOk = TRUE
    /\ assembled = <<>>
    /\ located = <<>>

\* _create_intelligent_chunks, lines 254-332: the loop over basic_chunks, then
\* _optimize_chunks_semantically on the chunks it built (line 330)
Locate ==
    /\ cpc = "split"
    /\ LET cs == LocateLoop(text, DocId, BasicChunks(text, spans), 0, <<>>)
       IN  located' = _optimize_chunks_semantically(cs, CosineSimilarity(cs))
    /\ cpc' = "split_done"
    /\ UNCHANGED <<text, max_chunk_size, overlap_size, basic, sentences, segOk, assembled, spans>>
    /\ UNCHANGED consVars
    /\ UNCHANGED callVars

NextSplit == Locate

SpecSplit == InitSplit /\ [][NextSplit]_vars

-----------------------------------------------------------------------------
(* Inputs of a consolidation run *)

\* cosine_similarity: symmetric, 1.0 on the diagonal
SimMatrix(n, tri) ==
    [i \in 0..(n - 1) |-> [j \in 0..(n - 1) |->
        IF i = j THEN 100 ELSE tri[<<Min(i, j), Max(i, j)>>]]]

Entity(i) == [text |-> Letters[i + 1], label |-> "ORG"]

\* a chunk dict as _create_intelligent_chunks builds it, lines 308-325; the
\* embedding of chunk_text is named by the index of the chunk it was computed
\* from
DictChunk(i, kw) ==
    [chunk_id    |-> ChunkId(DocId, i),
     document_id |-> DocId,
     content     |-> <<Letters[i + 1]>>,
     metadata    |-> [chunk_index |-> i,
                      keywords    |-> kw,
                      entities    |-> <<Entity(i)>>,
                      semantic_embedding |-> i]]

\* an annotated ChunkMetadata, lines 223-238 and 141-148
MetaChunk(i, kw, imp) ==
    [chunk_id         |-> ChunkId(DocId, i),
     document_id      |-> DocId,
     content          |-> <<Letters[i + 1]>>,
     start_position   |-> 0,
     end_position     |-> 1,
     chunk_index      |-> i,
     entities         |-> <<Entity(i)>>,
     keywords         |-> kw,
     sentiment        |-> "neutral",
     importance_score |-> imp,
     legal_terms      |-> <<>>,
     case_references  |-> <<>>,
     statute_references |-> <<>>]

ChunkerOff ==
    /\ cpc = "off"
    /\ text = <<>>
    /\ max_chunk_size = 1000
    /\ overlap_size = 200
    /\ basic = <<>>
    /\ sentences = <<>>
    /\ segOk = TRUE
    /\ assembled = <<>>
    /\ spans = <<>>
    /\ located = <<>>

Init ==
    /\ pc = "start"
    /\ optDone = FALSE
    /\ \E n \in 0..MaxChunks :
         /\ \E tri \in [Pairs(n) -> Scores] : sim = SimMatrix(n, tri)
         /\ \E an \in [0..(n - 1) -> AnnotChoices] :
              /\ chunks = [k \in 1..n |-> DictChunk(k - 1, an[k - 1].kw)]
              /\ mchunks = [k \in 1..n |-> MetaChunk(k - 1, an[k - 1].kw, an[k - 1].imp)]
    /\ embOk \in BOOLEAN
    /\ optimized = <<>>
    /\ merged = <<>>
    /\ result = [success |-> FALSE]
    /\ ChunkerOff
    /\ CallsOff

\* _create_intelligent_chunks, line 330
Optimize ==
    /\ ~optDone
    /\ optimized' = _optimize_chunks_semantically(chunks, sim)
    /\ optDone' = TRUE
    /\ UNCHANGED <<pc, chunks, mchunks, sim, embOk, merged, result>>
    /\ UNCHANGED chunkVars
    /\ UNCHANGED callVars

\* process_document, line 151
Merge ==
    /\ pc = "start"
    /\ merged' = _merge_chunks(mchunks, sim, embOk)
    /\ pc' = "merged"
    /\ UNCHANGED <<optDone, chunks, mchunks, sim, embOk, optimized, result>>
    /\ UNCHANGED chunkVars
    /\ UNCHANGED callVars

\* process_document, lines 154-186
Respond ==
    /\ pc = "merged"
    /\ result' = ProcessResult(merged)
    /\ pc' = "done"
    /\ UNCHANGED <<optDone, chunks, mchunks, sim, embOk, optimized, merged>>
    /\ UNCHANGED chunkVars
    /\ UNCHANGED callVars

\* _optimize_chunks_semantically called again, on the list it returned
Reoptimize ==
    /\ optDone
    /\ outcome.state = "none"
    /\ env' = [entry |-> "_optimize_chunks_semantically"]
    /\ outcome' = Returned(_optimize_chunks_semantically(optimized,
                                                         CosineSimilarity(optimized)))
    /\ UNCHANGED <<consVars, chunkVars>>

Next == Optimize \/ Merge \/ Respond \/ Reoptimize

Spec == Init /\ [][Next]_vars

-----------------------------------------------------------------------------
(* Consolidation: what the output says about the input *)

\* the source chunk ids an output dict stands for
GroupIds(c) ==
    IF "merged_from" \in DOMAIN c.metadata THEN c.metadata.merged_from
    ELSE <<c.chunk_id>>

\* how often x occurs in the list s
Occurrences(s, x) == Cardinality({k \in 1..Len(s) : s[k] = x})

\* the groups of an output list of dicts
GroupsOf(out) == [k \in 1..Len(out) |-> GroupIds(out[k])]

\* the contents of an output list
ContentsOf(out) == [k \in 1..Len(out) |-> out[k].content]

\* how often x occurs in a list of lists
TotalOccurrences(lists, x) == Occurrences(Flatten(lists), x)

\* the input indexes whose content an output chunk holds, in content order
SourceIndexes(c) ==
    LET letters == SelectSeq(c.content, LAMBDA ch : ch # " ")
    IN  [k \in 1..Len(letters) |->
            CHOOSE i \in 0..(Len(Letters) - 1) : Letters[i + 1] = letters[k]]

\* the lowest source index of an output chunk's group
AnchorOf(c) ==
    LET src == Range(SourceIndexes(c))
    IN  CHOOSE a \in src : \A b \in src : a <= b

NoPairAbove ==
    \A p \in Pairs(Len(chunks)) : ~(sim[p[1]][p[2]] > SimThreshold)

\* C1: consolidation partitions its input: every input chunk is in exactly one
\* output group and its content occurs exactly once in the output, for
\* _optimize_chunks_semantically and for _merge_chunks.
C1_Partition ==
    /\ optDone =>
         \A k \in 1..Len(chunks) :
            /\ TotalOccurrences(GroupsOf(optimized), chunks[k].chunk_id) = 1
            /\ TotalOccurrences(ContentsOf(optimized), Letters[k]) = 1
    /\ pc \in {"merged", "done"} =>
         \A k \in 1..Len(mchunks) :
            TotalOccurrences(ContentsOf(merged), Letters[k]) = 1

\* both consolidations have merged two chunks into one group and passed a
\* third one through, although the third is similar to a consumed chunk
C1_Witness ==
    /\ optDone /\ pc = "merged" /\ embOk
    /\ Len(chunks) = 3
    /\ sim[0][2] > SimThreshold /\ sim[1][2] > SimThreshold
    /\ ~(sim[0][1] > SimThreshold)
    /\ Len(optimized) = 2 /\ Len(merged) = 2

\* the number of source chunks an output list of dicts accounts for
SourceCount(out) == Len(Flatten(GroupsOf(out)))

\* C2: in _optimize_chunks_semantically the ids listed in all merged_from
\* lists plus the singletons passed through number the input chunks, for
\* every input of two or more chunks.
C2_SourceCount ==
    (optDone /\ Len(chunks) >= 2) => SourceCount(optimized) = Len(chunks)

C2_Witness ==
    /\ optDone /\ Len(chunks) = 3 /\ Len(optimized) = 2
    /\ \E k \in 1..2 : "merged_from" \in DOMAIN optimized[k].metadata
    /\ \E k \in 1..2 : "merged_from" \notin DOMAIN optimized[k].metadata

AnchorOrdered(out) ==
    \A x, y \in 1..Len(out) :
        AnchorOf(out[x]) < AnchorOf(out[y]) => x < y

\* C3: the output of consolidation is ordered by anchor index, for
\* _optimize_chunks_semantically and for _merge_chunks.
C3_AnchorOrder ==
    /\ optDone => AnchorOrdered(optimized)
    /\ pc \in {"merged", "done"} => AnchorOrdered(merged)

\* chunk 0 absorbs chunk 2, chunk 1 stays alone: two groups, anchors 0 and 1
C3_Witness ==
    /\ optDone /\ pc = "merged" /\ embOk
    /\ Len(chunks) = 3
    /\ sim[0][2] > SimThreshold /\ ~(sim[0][1] > SimThreshold)
    /\ Len(optimized) = 2 /\ Len(merged) = 2
    /\ AnchorOf(optimized[2]) = 1 /\ AnchorOf(merged[2]) = 1

\* C4: when no pair i < j has similarity strictly above the threshold,
\* consolidation returns its input: same chunks, same order, same ids, and
\* none marked as merged.
C4_NoOp ==
    NoPairAbove =>
        /\ optDone => optimized = chunks
        /\ pc \in {"merged", "done"} => merged = mchunks

\* three chunks, one pair exactly at the threshold, both consolidations ran
C4_Witness ==
    /\ optDone /\ pc = "merged" /\ embOk
    /\ Len(chunks) = 3 /\ NoPairAbove
    /\ \E p \in Pairs(3) : sim[p[1]][p[2]] = SimThreshold

\* the members of a list of lists, as one set
UnionOf(lists) == Range(Flatten(lists))

\* the input dicts an output dict was made from
SourcesOf(c) ==
    LET src == SourceIndexes(c)
    IN  [k \in 1..Len(src) |-> chunks[src[k] + 1]]

\* C5: a chunk merged by _optimize_chunks_semantically has the union of the
\* entities and of the keywords of all source chunks of its group.
C5_UnionOfSources ==
    optDone =>
        \A k \in 1..Len(optimized) :
            LET c == optimized[k]
                srcs == SourcesOf(c)
            IN  Len(srcs) >= 2 =>
                  /\ Range(c.metadata.keywords) =
                       UnionOf([x \in 1..Len(srcs) |-> srcs[x].metadata.keywords])
                  /\ Range(c.metadata.entities) =
                       UnionOf([x \in 1..Len(srcs) |-> srcs[x].metadata.entities])

\* the ids of the ChunkMetadata a result chunk was made from, in source order
ResultSourceIds(c) ==
    LET src == SourceIndexes(c)
    IN  [k \in 1..Len(src) |-> mchunks[src[k] + 1].chunk_id]

\* C6: every chunk of the result of process_document formed from two or more
\* source chunks carries merged_from, the ids of its sources in source order;
\* the others carry an empty or no merged_from.
C6_MergedFromInResult ==
    pc = "done" =>
        \A k \in 1..Len(result.chunks) :
            LET c == result.chunks[k]
            IN  IF Len(ResultSourceIds(c)) >= 2
                THEN /\ "merged_from" \in DOMAIN c
                     /\ c.merged_from = ResultSourceIds(c)
                ELSE \/ "merged_from" \notin DOMAIN c
                     \/ c.merged_from = <<>>

-----------------------------------------------------------------------------
(* Chunk assembly: offsets *)

\* where the content of an assembled chunk begins in AssembledText
TrueStart(c) ==
    LET first == c.content[1].sent
    IN  IF "at" \in DOMAIN c.content[1] THEN c.content[1].at
        ELSE StrLen(JoinWith([k \in 1..(first - 1) |-> <<sentences[k]>>], <<SpaceTok>>))
             + (IF first > 1 THEN 1 ELSE 0)

\* C7: for every chunk of create_chunks and of _create_intelligent_chunks the
\* recorded offsets delimit the chunk in the normalized text: the text between
\* start and end is the chunk's buffer (compared after the strip() the code
\* applies to the buffer), also for documents of two or more chunks.
C7_OffsetsExact ==
    /\ cpc = "basic_done" =>
         \A k \in 1..Len(basic) :
            /\ basic[k].endPos <= Len(preprocess_text(text))
            /\ Strip(Slice(preprocess_text(text), basic[k].startPos, basic[k].endPos))
                 = basic[k].chunkText
    /\ cpc = "advanced_done" =>
         \A k \in 1..Len(assembled) :
            /\ assembled[k].start_position = TrueStart(assembled[k])
            /\ assembled[k].end_position
                 = TrueStart(assembled[k]) + StrLen(assembled[k].content)

StartsMonotone(starts) ==
    \A k \in 1..(Len(starts) - 1) : starts[k] <= starts[k + 1]

\* C9: the chunks of the sentence-based assemblers have start offsets that
\* never decrease in chunk_index order, and every chunk has start < end.
C9_MonotoneStarts ==
    /\ cpc = "basic_done" =>
         /\ StartsMonotone([k \in 1..Len(basic) |-> basic[k].startPos])
         /\ \A k \in 1..Len(basic) : basic[k].startPos < basic[k].endPos
    /\ cpc = "advanced_done" =>
         /\ StartsMonotone([k \in 1..Len(assembled) |-> assembled[k].start_position])
         /\ \A k \in 1..Len(assembled) :
               assembled[k].start_position < assembled[k].end_position

\* create_chunks sealed two buffers and carried overlap text into the third
C9_Witness ==
    /\ cpc = "basic_done"
    /\ overlap_size > 0
    /\ Len(basic) = 3
    /\ basic[3].metadata.chunkIndex = 2

\* C10: in create_chunks the span of a chunk never intersects the span of a
\* chunk two or more positions earlier.
C10_NoSkipOverlap ==
    cpc = "basic_done" =>
        \A i, j \in 1..Len(basic) :
            j >= i + 2 => basic[j].startPos >= basic[i].endPos

\* C8: in _create_intelligent_chunks of advanced-document-processor.py the
\* start_char and end_char of a chunk delimit the place where the chunk was
\* cut from the document, also when the same text occurs earlier; start_char
\* is never negative.
C8_OffsetsAtOccurrence ==
    cpc = "split_done" =>
        \A k \in 1..Len(located) :
            LET m == located[k].metadata
                sp == spans[m.chunk_index + 1]
            IN  /\ m.start_char >= 0
                /\ m.start_char = sp[1]
                /\ m.end_char = sp[2]

-----------------------------------------------------------------------------
(* Chunk assembly: coverage, size and sentences *)

\* the span [startPos, endPos) of a chunk of create_chunks holds position p
Covers(c, p) == c.startPos <= p /\ p < c.endPos

\* C11: for every document chunked by create_chunks, every character position
\* 0..len-1 of the preprocessed text lies in the span [startPos, endPos) of at
\* least one chunk.
C11_SpansCoverText ==
    cpc = "basic_done" =>
        \A p \in 0..(Len(preprocess_text(text)) - 1) :
            \E k \in 1..Len(basic) : Covers(basic[k], p)

\* the non-blank sentences the segmenter of create_chunks returns, line 48
SegmentedSentences(s) ==
    SelectSeq(SplitSentences(preprocess_text(s), <<>>), LAMBDA x : Len(Strip(x)) > 0)

\* TRUE when the chunk text holds, whole, a sentence longer than mx
HoldsOversizedSentence(chunk_text, sents, mx) ==
    \E x \in 1..Len(sents) :
        Len(sents[x]) > mx /\ Find(chunk_text, sents[x], 0) >= 0

\* C12: every chunk of create_chunks has a content of at most max_chunk_size
\* characters, the joining spaces and the carried overlap text included,
\* unless it holds a single sentence that is itself longer than
\* max_chunk_size.
C12_MaxSizeRespected ==
    cpc = "basic_done" =>
        \A k \in 1..Len(basic) :
            \/ Len(basic[k].chunkText) <= max_chunk_size
            \/ HoldsOversizedSentence(basic[k].chunkText, SegmentedSentences(text),
                                      max_chunk_size)

\* the last n characters of s, for 0 <= n
Suffix(s, n) == Slice(s, Len(s) - Min(n, Len(s)), Len(s))

\* TRUE when chunk k of create_chunks is the sentence alone, or the sentence
\* behind at most overlap_size trailing characters of chunk k - 1
AloneButOverlap(cs, k, sentence, ov) ==
    \/ cs[k].chunkText = sentence
    \/ /\ k > 1
       /\ \E n \in 0..Max(ov, 0) :
             cs[k].chunkText = Strip(Suffix(cs[k - 1].chunkText, n) \o <<" ">> \o sentence)

\* C13: assembly neither splits nor drops a sentence: every non-blank sentence
\* of the segmenter is whole in the content of some chunk, and a sentence
\* longer than the maximum size is in a chunk that holds no other sentence
\* apart from the overlap text carried over from the previous chunk; for
\* create_chunks and for _create_intelligent_chunks.
C13_SentencesWhole ==
    /\ cpc = "basic_done" =>
         LET sents == SegmentedSentences(text)
         IN  \A x \in 1..Len(sents) :
                /\ \E k \in 1..Len(basic) : Find(basic[k].chunkText, sents[x], 0) >= 0
                /\ Len(sents[x]) > max_chunk_size =>
                     \E k \in 1..Len(basic) :
                        AloneButOverlap(basic, k, sents[x], overlap_size)
    /\ (cpc = "advanced_done" /\ segOk) =>
         \A x \in 1..Len(sentences) :
            /\ \E k \in 1..Len(assembled) : sentences[x] \in Range(assembled[k].content)
            /\ TokLen(sentences[x]) > OptimalChunkSize =>
                 \E k \in 1..Len(assembled) : assembled[k].content = <<sentences[x]>>

-----------------------------------------------------------------------------
(* python-document-processor.py: process_document *)

\* what process_document of advanced_document_processor.py returns (line 116:
\* Dict[str, Any]); the module the other two files import
AdvancedResultKind == "dict"

\* whether obj.name exists on a value of that kind: a dict has no attribute
\* success, a dataclass with such a field has
HasAttribute(kind, name) == kind = "dataclass"

\* not text.strip(), line 183
TextIsBlank(t) == Len(Strip(t)) = 0

AdvancedAttempt_anyResult(advanced) ==
    IF advanced \in {"unavailable", "no_file"} THEN "skipped"
    ELSE IF advanced = "init_raises" THEN "raised"
    ELSE "succeeded"

\* the advanced attempt, lines 187-229: skipped without the import or without
\* an existing file_path (line 187).  The processor imported on line 20 is
\* that of advanced_document_processor.py, whose process_document returns a
\* dict: result.success on line 192 raises AttributeError, caught on line 228
AdvancedAttempt(advanced) ==
    IF advanced \in {"unavailable", "no_file"} THEN "skipped"
    ELSE IF advanced = "init_raises" THEN "raised"
    ELSE IF ~HasAttribute(AdvancedResultKind, "success") THEN "attribute_error"
    ELSE IF advanced = "reports_failure" THEN "failed"
    ELSE "succeeded"

\* the record of the except branch, lines 256-262
ErrorRecord(msg) ==
    [error |-> msg, chunks |-> <<>>, word_document |-> "", chunk_count |-> 0,
     total_tokens |-> 0]

RECURSIVE SumTokens(_)
\* sum(chunk.get('tokenCount', 0) for chunk in chunks), line 249
SumTokens(cs) == IF Len(cs) = 0 THEN 0 ELSE cs[1].tokenCount + SumTokens(Tail(cs))

\* response, lines 245-251
BasicResponse(cs) ==
    [chunks |-> cs, word_document |-> "hex", chunk_count |-> Len(cs),
     total_tokens |-> SumTokens(cs), processing_method |-> "basic"]

\* process_document, lines 174-262; e says what the environment does
process_document(e) ==
    IF ~e.is_dict THEN Returned(ErrorRecord("AttributeError"))
    ELSE IF TextIsBlank(e.text) THEN Returned(ErrorRecord("No text content provided"))
    ELSE LET attempt == AdvancedAttempt(e.advanced)
             cs == create_chunks(e.text, e.max_chunk_size, e.overlap_size)
         IN  IF attempt = "succeeded"
             THEN Returned([processing_method |-> "advanced"])
             ELSE IF ~e.word_ok THEN Returned(ErrorRecord("word document"))
             ELSE Returned(BasicResponse(cs))

-----------------------------------------------------------------------------
(* advanced-document-processor.py: process_document.  `time` is imported on   *)
(* line 431 only, under __name__ == "__main__": the name is bound when the    *)
(* file runs as a script and unbound when the module is imported.             *)

\* ProcessingResult, lines 122-131, 136-144 and 148-157
ProcessingResult(title, content, cs, success, error_message) ==
    [document_id |-> DocId, title |-> title, content |-> content, chunks |-> cs,
     success |-> success, error_message |-> error_message]

\* process_document, lines 113-157
process_document_file(e) ==
    IF ~e.as_script
    THEN \* time.time() on line 115, before the try
         Raised("NameError")
    ELSE IF e.extraction = "raises"
    THEN Returned(ProcessingResult("Unknown", <<>>, <<>>, FALSE, "extraction failed"))
    ELSE IF Len(Strip(e.content)) = 0
    THEN Returned(ProcessingResult("Unknown", e.content, <<>>, FALSE,
                                   "No content extracted from document"))
    ELSE IF ~e.chunking_ok
    THEN Returned(ProcessingResult("Unknown", <<>>, <<>>, FALSE, "chunking failed"))
    ELSE Returned(ProcessingResult("Unknown", e.content, e.chunks, TRUE, None))

-----------------------------------------------------------------------------
(* advanced-document-worker.py: process_document_job *)

\* a key that job_data does not hold
Missing == "<missing>"

\* job_data.get(key) and job_data.get(key, default), lines 37 and 84, on the
\* entry v of the key
DictGet(v, default) == IF v = Missing THEN default ELSE v

\* process_document_job, lines 34-86
process_document_job(e) ==
    LET document_id == DictGet(e.documentId, None)
    IN  IF ~e.is_dict
        THEN \* job_data.get raises on line 37 and again in the handler, line 84
             Raised("AttributeError")
        ELSE IF ~HasAttribute(AdvancedResultKind, "success")
        THEN \* result.success raises on line 47; the handler, lines 81-86
             Returned([success |-> FALSE,
                       documentId |-> DictGet(e.documentId, "unknown"),
                       error |-> "AttributeError"])
        ELSE IF ~e.result.success
        THEN Returned([success |-> FALSE, documentId |-> document_id,
                       error |-> e.result.error_message])
        ELSE Returned([success |-> TRUE, documentId |-> document_id,
                       chunks |-> e.result.chunks, chunkCount |-> Len(e.result.chunks)])

-----------------------------------------------------------------------------
(* advanced_document_processor.py: process_document, the annotation of the   *)
(* chunks.  e.failing are the sub-features that raise and e.failAt the       *)
(* indexes of the chunks on which they raise.                                *)

MaxAnnotated == 2

Features == {"entities", "keywords", "legal_terms", "case_references",
             "statute_references", "importance_score", "sentiment"}

\* labels that count for the importance score, line 373
HighValueLabels == {"PERSON", "ORG", "GPE", "LAW"}

Fails(e, f, i) == f \in e.failing /\ i \in e.failAt

\* what the capabilities find in chunk i when they do not raise
FoundEntities(i) == <<Entity(i)>>

\* keyword_scores after the sort of line 320: the features of chunk i with a
\* positive TF-IDF score, best first (max_features=10 allows at most ten)
RankedFeatures(i) ==
    <<<<"a1", "a2", "a3", "a4", "a5", "a6">>,
      <<"b1", "b2", "b3", "b4", "b5">>,
      <<"c1", "c2", "c3", "c4", "c5", "c6", "c7">>,
      <<"a1", "d2">>>>[(i % 4) + 1]

\* the [:5] of line 322
TopKeywords == 5

\* keyword_scores[:5], line 322
FoundKeywords(i) == Slice(RankedFeatures(i), 0, TopKeywords)

FoundLegalTerms(i) == <<"court">>

FoundCaseReferences(i) == IF i = 0 THEN <<"2024-001">> ELSE <<>>

FoundStatuteReferences(i) == IF i = 1 THEN <<"123">> ELSE <<>>

FoundSentiment(i) == IF i = 0 THEN "positive" ELSE "negative"

\* lines 285-301
_extract_entities(e, i) == IF Fails(e, "entities", i) THEN <<>> ELSE FoundEntities(i)

\* lines 303-326
_extract_keywords(e, i) == IF Fails(e, "keywords", i) THEN <<>> ELSE FoundKeywords(i)

\* list(set(legal_terms)), line 334: the distinct matches, in the iteration
\* order the process gives to the set
LegalTermsOf(matches, layout) == ListOfSet(matches, layout)

\* lines 328-337
_extract_legal_terms(e, i) ==
    IF Fails(e, "legal_terms", i) THEN <<>>
    ELSE LegalTermsOf(FoundLegalTerms(i), NoLayout)

\* lines 339-348
_extract_case_references(e, i) ==
    IF Fails(e, "case_references", i) THEN <<>> ELSE FoundCaseReferences(i)

\* lines 350-359
_extract_statute_references(e, i) ==
    IF Fails(e, "statute_references", i) THEN <<>> ELSE FoundStatuteReferences(i)

ImportanceScore_uncapped(legal_terms, entities, case_refs, statute_refs) ==
    Len(legal_terms) * 10
      + Cardinality({k \in 1..Len(entities) : entities[k].label \in HighValueLabels}) * 5
      + Len(case_refs) * 20
      + Len(statute_refs) * 15

\* the weighted sum of lines 364-383, in hundredths
ImportanceScore(legal_terms, entities, case_refs, statute_refs) ==
    Min(Len(legal_terms) * 10
          + Cardinality({k \in 1..Len(entities) : entities[k].label \in HighValueLabels}) * 5
          + Len(case_refs) * 20
          + Len(statute_refs) * 15,
        100)

_calculate_importance_score_noCatch(e, i) ==
    ImportanceScore(_extract_legal_terms(e, i), _extract_entities(e, i),
                    _extract_case_references(e, i), _extract_statute_references(e, i))

\* the try and its handler, lines 363 and 385-387, around the sum
ScoreOrZero(raises, legal_terms, entities, case_refs, statute_refs) ==
    IF raises THEN 0
    ELSE ImportanceScore(legal_terms, entities, case_refs, statute_refs)

\* lines 361-387
_calculate_importance_score(e, i) ==
    ScoreOrZero(Fails(e, "importance_score", i),
                _extract_legal_terms(e, i), _extract_entities(e, i),
                _extract_case_references(e, i), _extract_statute_references(e, i))

\* lines 389-411
_analyze_sentiment(e, i) ==
    IF Fails(e, "sentiment", i) THEN "neutral" ELSE FoundSentiment(i)

\* a ChunkMetadata as _create_intelligent_chunks leaves it, lines 223-238
RawChunk(i) ==
    [MetaChunk(i, <<>>, 0) EXCEPT !.entities = <<>>, !.sentiment = ""]

\* the body of the loop of lines 141-148
AnnotateChunk(c, e, i) ==
    [c EXCEPT !.entities = _extract_entities(e, i),
              !.keywords = _extract_keywords(e, i),
              !.legal_terms = _extract_legal_terms(e, i),
              !.case_references = _extract_case_references(e, i),
              !.statute_references = _extract_statute_references(e, i),
              !.importance_score = _calculate_importance_score(e, i),
              !.sentiment = _analyze_sentiment(e, i)]

\* the record of the except branch, lines 190-195
FailureResult(msg) == [success |-> FALSE, error |-> msg, document_id |-> DocId]

-----------------------------------------------------------------------------
(* One document handled by a Python process of its own.  Each file runs as  *)
(* a script on one document, and the layout of the sets of str of a process  *)
(* follows the hash seed drawn when the process starts.                      *)

\* the [:10] of line 287 of advanced-document-processor.py
KeywordLimit == 10

\* list(set(keywords))[:10], advanced-document-processor.py line 287
KeywordsOf(lemmas, layout) == Slice(ListOfSet(lemmas, layout), 0, KeywordLimit)

-----------------------------------------------------------------------------
(* Calls of the entry points *)

ConfigSizes == {-1, 0, 2, 3}

ConfigOverlaps == {-1, 0, 1, 3}

BlankTexts == {<<>>, <<" ">>, <<" ", "\n">>}

DocTexts == BlankTexts \cup SentenceTexts \cup BoilerplateTexts

\* input_data and the environment of one call of process_document
BasicCalls ==
    {[entry |-> "process_document", is_dict |-> d, text |-> t, max_chunk_size |-> mx,
      overlap_size |-> ov, advanced |-> a, word_ok |-> w] :
        d \in BOOLEAN, t \in DocTexts, mx \in ConfigSizes, ov \in ConfigOverlaps,
        a \in {"unavailable", "no_file", "init_raises", "reports_failure",
               "reports_success"},
        w \in BOOLEAN}

\* what _extract_content and _create_intelligent_chunks do in one call of
\* process_document of advanced-document-processor.py
FileCalls ==
    {[entry |-> "process_document_file", as_script |-> m, extraction |-> x,
      content |-> c, chunking_ok |-> ok,
      chunks |-> [k \in 1..n |-> DictChunk(k - 1, <<"k0">>)]] :
        m \in BOOLEAN, x \in {"raises", "returns"},
        c \in {<<>>, <<" ">>, <<"\n", " ">>, <<"a", ".">>},
        ok \in BOOLEAN, n \in 1..MaxAnnotated}

\* job_data and what the processor returns in one call of process_document_job
JobCalls ==
    {[entry |-> "process_document_job", is_dict |-> d, documentId |-> id,
      result |-> r] :
        d \in BOOLEAN, id \in {DocId, None, Missing},
        r \in {FailureResult("error"), ProcessResult(<<>>),
               ProcessResult(<<MetaChunk(0, <<"k0">>, 50)>>)}}

FailSets == {F \in SUBSET Features : Cardinality(F) <= 2}

\* the longest document of a pipeline run; failures are injected into the
\* documents of up to MaxAnnotated chunks
MaxMerged == 3

\* the failures of one run of process_document of advanced_document_processor.py
\* over n chunks
PipelineCalls(n) ==
    {[entry |-> "pipeline", failing |-> F, failAt |-> A, respond_ok |-> ok] :
        F \in FailSets, A \in SUBSET (0..(n - 1)), ok \in BOOLEAN}

InitCalls ==
    /\ ConsolidationOff
    /\ ChunkerOff
    /\ env \in BasicCalls \cup FileCalls \cup JobCalls
    /\ outcome = Pending

\* the legal terms in use, in the two orders a set of them can iterate in
TermOrders == {<<"court", "judge">>, <<"judge", "court">>}

\* what re.finditer (line 332) or the token loop (lines 278-284) finds in one
\* chunk, in text order
TermLists == {<<"court">>, <<"court", "judge">>, <<"judge", "court", "judge">>}

\* a text of one chunk and a text of two
RepeatTexts == {<<"a", ".">>, <<"a", ".", " ", "a", "a", ".">>}

\* the layouts a process can give to the sets of two terms: one order
\* whatever the insertion order (no collision), or an order that follows the
\* insertion order (collision)
Layouts == [TermOrders -> TermOrders]

\* one function applied to one document by two processes, each with its
\* layout: create_chunks on a text, _extract_legal_terms on the matches of
\* each chunk, or the keyword step of _create_intelligent_chunks on the
\* lemmas of each chunk
RepeatCalls ==
    {[entry |-> "repeat", fn |-> "create_chunks", text |-> t, max_chunk_size |-> 3,
      overlap_size |-> ov, seeds |-> sd] :
        t \in RepeatTexts, ov \in {0, 1}, sd \in Layouts \X Layouts}
    \cup UNION {{[entry |-> "repeat", fn |-> "_extract_legal_terms", matches |-> ms,
                  seeds |-> sd] :
                    ms \in [1..n -> TermLists], sd \in Layouts \X Layouts}
                  : n \in 1..MaxAnnotated}
    \cup UNION {{[entry |-> "repeat", fn |-> "keywords", lemmas |-> ls, seeds |-> sd] :
                    ls \in [1..n -> TermLists], sd \in Layouts \X Layouts}
                  : n \in 1..MaxAnnotated}

InitRepeat ==
    /\ ConsolidationOff
    /\ ChunkerOff
    /\ env \in RepeatCalls
    /\ outcome = [state |-> "runs", runs |-> <<>>]

InitPipeline ==
    /\ ChunkerOff
    /\ pc = "assembled"
    /\ optDone = TRUE
    /\ chunks = <<>>
    /\ optimized = <<>>
    /\ merged = <<>>
    /\ result = [success |-> FALSE]
    /\ embOk \in BOOLEAN
    /\ outcome = Pending
    /\ \E n \in 0..MaxMerged :
         /\ mchunks = [k \in 1..n |-> RawChunk(k - 1)]
         /\ \E tri \in [Pairs(n) -> Scores] : sim = SimMatrix(n, tri)
         /\ env \in {e \in PipelineCalls(n) :
                       /\ (e.failing = {}) <=> (e.failAt = {})
                       /\ n > MaxAnnotated => e.failing = {}}

\* up to two recognised entities, with labels that count and one that does not
EntityLists ==
    UNION {[1..n -> {[text |-> "x", label |-> l] : l \in {"ORG", "LAW", "DATE"}}]
             : n \in 0..2}

\* n references, repeated ones included
Refs(n, ref) == [k \in 1..n |-> ref]

\* one call of _calculate_importance_score: what the extractors find in the
\* text, the set layout of the process, and whether the scoring raises
ScoreCalls ==
    {[entry |-> "_calculate_importance_score", matches |-> ms, layout |-> o,
      entities |-> es, case_refs |-> Refs(c, "2024-001"),
      statute_refs |-> Refs(st, "123"), raises |-> r] :
        ms \in TermLists \cup {<<>>}, o \in Layouts, es \in EntityLists,
        c \in {0, 1, 5, 6}, st \in {0, 1, 7}, r \in BOOLEAN}

InitScore ==
    /\ ConsolidationOff
    /\ ChunkerOff
    /\ env \in ScoreCalls
    /\ outcome = Pending

InitProcess == InitCalls \/ InitPipeline \/ InitRepeat \/ InitScore

\* advanced_document_processor.py: _calculate_importance_score
CalculateImportanceScore ==
    /\ env.entry = "_calculate_importance_score"
    /\ outcome = Pending
    /\ outcome' = Returned(ScoreOrZero(env.raises, LegalTermsOf(env.matches, env.layout),
                                       env.entities, env.case_refs, env.statute_refs))
    /\ UNCHANGED <<env, consVars, chunkVars>>

\* python-document-processor.py: one more process cuts the text, create_chunks
RunCreateChunks ==
    /\ env.entry = "repeat"
    /\ env.fn = "create_chunks"
    /\ Len(outcome.runs) < 2
    /\ outcome' = [outcome EXCEPT
                     !.runs = Append(@, create_chunks(env.text, env.max_chunk_size,
                                                      env.overlap_size))]
    /\ UNCHANGED <<env, consVars, chunkVars>>

\* advanced_document_processor.py: one more process applies
\* _extract_legal_terms to every chunk
RunExtractLegalTerms ==
    /\ env.entry = "repeat"
    /\ env.fn = "_extract_legal_terms"
    /\ Len(outcome.runs) < 2
    /\ LET layout == env.seeds[Len(outcome.runs) + 1]
       IN  outcome' = [outcome EXCEPT
                         !.runs = Append(@, [k \in 1..Len(env.matches) |->
                                               LegalTermsOf(env.matches[k], layout)])]
    /\ UNCHANGED <<env, consVars, chunkVars>>

\* advanced-document-processor.py: one more process builds the keywords of
\* every chunk, lines 277-287
RunKeywords ==
    /\ env.entry = "repeat"
    /\ env.fn = "keywords"
    /\ Len(outcome.runs) < 2
    /\ LET layout == env.seeds[Len(outcome.runs) + 1]
       IN  outcome' = [outcome EXCEPT
                         !.runs = Append(@, [k \in 1..Len(env.lemmas) |->
                                               KeywordsOf(env.lemmas[k], layout)])]
    /\ UNCHANGED <<env, consVars, chunkVars>>

\* python-document-processor.py: process_document
ProcessDocument ==
    /\ env.entry = "process_document"
    /\ outcome = Pending
    /\ outcome' = process_document(env)
    /\ UNCHANGED <<env, consVars, chunkVars>>

\* advanced-document-processor.py: process_document
ProcessDocumentFile ==
    /\ env.entry = "process_document_file"
    /\ outcome = Pending
    /\ outcome' = process_document_file(env)
    /\ UNCHANGED <<env, consVars, chunkVars>>

\* advanced-document-worker.py: process_document_job
ProcessDocumentJob ==
    /\ env.entry = "process_document_job"
    /\ outcome = Pending
    /\ outcome' = process_document_job(env)
    /\ UNCHANGED <<env, consVars, chunkVars>>

\* advanced_document_processor.py: process_document, lines 137-148
Annotate ==
    /\ pc = "assembled"
    /\ mchunks' = [k \in 1..Len(mchunks) |-> AnnotateChunk(mchunks[k], env, k - 1)]
    /\ pc' = "start"
    /\ UNCHANGED <<optDone, chunks, sim, embOk, optimized, merged, result>>
    /\ UNCHANGED <<chunkVars, callVars>>

\* lines 154-186, when nothing in them raises
RespondOk ==
    /\ pc = "merged"
    /\ env.respond_ok
    /\ Respond

\* lines 188-195, when a step of lines 154-186 raises
Abort ==
    /\ pc = "merged"
    /\ ~env.respond_ok
    /\ result' = FailureResult("error")
    /\ pc' = "failed"
    /\ UNCHANGED <<optDone, chunks, mchunks, sim, embOk, optimized, merged>>
    /\ UNCHANGED <<chunkVars, callVars>>

NextProcess ==
    \/ ProcessDocument
    \/ ProcessDocumentFile
    \/ ProcessDocumentJob
    \/ RunCreateChunks
    \/ RunExtractLegalTerms
    \/ RunKeywords
    \/ CalculateImportanceScore
    \/ Annotate
    \/ Merge
    \/ RespondOk
    \/ Abort

SpecProcess == InitProcess /\ [][NextProcess]_vars

-----------------------------------------------------------------------------
(* Failure records *)

Called(entry) == env.entry = entry /\ outcome # Pending

\* C14: an empty or whitespace-only document yields zero chunks and a failure
\* record, not a crash: create_chunks returns the empty list, and
\* process_document (python-document-processor.py and
\* advanced-document-processor.py) returns a record with an error message and
\* an empty chunk list, without raising.
C14_BlankDocumentFails ==
    /\ (Called("process_document") /\ env.is_dict /\ Len(Strip(env.text)) = 0) =>
          /\ create_chunks(env.text, env.max_chunk_size, env.overlap_size) = <<>>
          /\ outcome.state = "returned"
          /\ "error" \in DOMAIN outcome.value
          /\ outcome.value.chunks = <<>>
    /\ (Called("process_document_file") /\ env.extraction = "returns"
          /\ Len(Strip(env.content)) = 0) =>
          /\ outcome.state = "returned"
          /\ ~outcome.value.success
          /\ outcome.value.error_message # None
          /\ outcome.value.chunks = <<>>

\* C15: a document that produces zero chunks (blank after normalization, or
\* otherwise) is treated like an empty one: process_document returns a
\* failure record, never a successful result with zero chunks.
C15_ZeroChunksFail ==
    /\ (Called("process_document") /\ outcome.state = "returned"
          /\ outcome.value.chunks = <<>>) =>
          "error" \in DOMAIN outcome.value
    /\ (env.entry = "pipeline" /\ pc = "done") =>
          ~(result.success /\ result.total_chunks = 0)

\* max_chunk_size not positive, overlap_size negative, or overlap_size not
\* below max_chunk_size
InvalidConfig(mx, ov) == mx <= 0 \/ ov < 0 \/ ov >= mx

\* C16: with an invalid configuration process_document returns a failure
\* record and produces no chunk.
C16_InvalidConfigRejected ==
    (Called("process_document") /\ env.is_dict
       /\ InvalidConfig(env.max_chunk_size, env.overlap_size)) =>
        /\ outcome.state = "returned"
        /\ "error" \in DOMAIN outcome.value
        /\ outcome.value.chunks = <<>>

\* a step of the call fails
StepFails(e) ==
    IF e.entry = "process_document"
    THEN ~e.is_dict \/ Len(Strip(e.text)) = 0 \/ ~e.word_ok
    ELSE IF e.entry = "process_document_file"
    THEN ~e.as_script \/ e.extraction = "raises" \/ Len(Strip(e.content)) = 0
           \/ ~e.chunking_ok
    ELSE IF e.entry = "process_document_job"
    THEN ~e.is_dict \/ ~HasAttribute(AdvancedResultKind, "success")
    ELSE ~e.respond_ok

\* the record says the call failed: success false or an error message, and
\* the chunk list empty or absent
IsFailureRecord(v) ==
    /\ \/ "success" \in DOMAIN v /\ ~v.success
       \/ "error" \in DOMAIN v
    /\ "chunks" \in DOMAIN v => v.chunks = <<>>

\* the record has both success true and an error message
SuccessWithError(v) ==
    /\ "success" \in DOMAIN v /\ v.success
    /\ \/ "error" \in DOMAIN v
       \/ "error_message" \in DOMAIN v /\ v.error_message # None

\* C17: no call of process_document (the three files) or of
\* process_document_job raises: when a step fails the call returns a failure
\* record, and no record has both success true and an error message.
C17_NoExceptionEscapes ==
    /\ outcome.state \in {"returned", "raised"} =>
          /\ outcome.state = "returned"
          /\ StepFails(env) => IsFailureRecord(outcome.value)
          /\ ~SuccessWithError(outcome.value)
    /\ (env.entry = "pipeline" /\ pc \in {"done", "failed"}) =>
          /\ StepFails(env) => IsFailureRecord(result)
          /\ ~SuccessWithError(result)

\* the value of an annotation field of chunk i when its sub-feature works
FoundField(f, i) ==
    IF f = "entities" THEN FoundEntities(i)
    ELSE IF f = "keywords" THEN FoundKeywords(i)
    ELSE IF f = "legal_terms" THEN FoundLegalTerms(i)
    ELSE IF f = "case_references" THEN FoundCaseReferences(i)
    ELSE IF f = "statute_references" THEN FoundStatuteReferences(i)
    ELSE IF f = "sentiment" THEN FoundSentiment(i)
    ELSE ImportanceScore(FoundLegalTerms(i), FoundEntities(i),
                         FoundCaseReferences(i), FoundStatuteReferences(i))

\* the empty or default value of an annotation field
DefaultField(f) ==
    IF f = "importance_score" THEN 0
    ELSE IF f = "sentiment" THEN "neutral"
    ELSE <<>>

\* the weighted sum over the fields chunk c carries, in hundredths: 0.1 per
\* legal term, 0.05 per entity with a high-value label, 0.2 per case reference
\* and 0.15 per statute reference, at most 1
ScoreOfFields(c) ==
    LET sum == 10 * Len(c.legal_terms)
                 + 5 * Cardinality({k \in 1..Len(c.entities) :
                                      c.entities[k].label \in {"PERSON", "ORG", "GPE", "LAW"}})
                 + 20 * Len(c.case_references)
                 + 15 * Len(c.statute_references)
    IN  IF sum > 100 THEN 100 ELSE sum

\* the document is never aborted by an annotation failure: a failing embedding
\* generation means no merge, the result has success true and holds every
\* assembled chunk
NeverAborts ==
    /\ (pc \in {"merged", "done", "failed"} /\ ~embOk) => merged = mchunks
    /\ env.respond_ok => pc # "failed"
    /\ pc = "done" =>
         /\ result.success
         /\ \A i \in 0..(Len(mchunks) - 1) :
               TotalOccurrences(ContentsOf(result.chunks), Letters[i + 1]) = 1
         /\ ~embOk => result.chunks = [k \in 1..Len(mchunks) |-> SerializeChunk(mchunks[k])]

\* C18 as stated: in process_document of advanced_document_processor.py a
\* failing annotation sub-feature of a chunk degrades only that field to its
\* empty or default value, so every field whose sub-feature works, the
\* importance score included, holds what it holds when nothing fails; and the
\* document is never aborted.
C18_OnlyThatField ==
    env.entry = "pipeline" =>
      /\ pc \in {"start", "merged", "done", "failed"} =>
           \A i \in 0..(Len(mchunks) - 1) : \A f \in Features :
              IF Fails(env, f, i) THEN mchunks[i + 1][f] = DefaultField(f)
              ELSE mchunks[i + 1][f] = FoundField(f, i)
      /\ NeverAborts

\* C18, amended: a failing annotation sub-feature of a chunk leaves that field
\* at its empty or default value and every other field but the importance
\* score at what its sub-feature found; the importance score, when the scoring
\* itself works, is the weighted sum over the chunk's legal terms, entities,
\* case references and statute references as annotated, so it loses the share
\* of an extractor that fails; and the document is never aborted.
C18_AnnotationDegrades ==
    env.entry = "pipeline" =>
      /\ pc \in {"start", "merged", "done", "failed"} =>
           \A i \in 0..(Len(mchunks) - 1) : \A f \in Features :
              IF Fails(env, f, i) THEN mchunks[i + 1][f] = DefaultField(f)
              ELSE IF f = "importance_score"
                   THEN mchunks[i + 1][f] = ScoreOfFields(mchunks[i + 1])
                   ELSE mchunks[i + 1][f] = FoundField(f, i)
      /\ NeverAborts

\* two chunks, entity recognition fails on the first, whose importance score
\* is 0.30 instead of 0.35, the embeddings could not be generated, and the
\* result was returned
C18_Witness ==
    /\ env.entry = "pipeline" /\ pc = "done"
    /\ Len(mchunks) = 2
    /\ Fails(env, "entities", 0) /\ ~Fails(env, "entities", 1)
    /\ ~Fails(env, "importance_score", 0)
    /\ mchunks[1].importance_score = 30
    /\ FoundField("importance_score", 0) = 35
    /\ ~embOk
    /\ Len(result.chunks) = 2

-----------------------------------------------------------------------------
(* advanced-document-processor.py: search_similar_chunks.  The embedding of  *)
(* a chunk is None or a list: none says which, vec is the list.  The list    *)
(* <<x>> stands for a vector whose cosine similarity to the query is x       *)
(* hundredths.                                                               *)

\* s[:k] for any integer k: a negative k counts from the end
SliceTo(s, k) ==
    IF k >= 0 THEN Slice(s, 0, k) ELSE Slice(s, 0, Max(Len(s) + k, 0))

\* bool(chunk['metadata'].get('semantic_embedding')), line 400
HasEmbedding(c) ==
    /\ ~c.metadata.semantic_embedding.none
    /\ Len(c.metadata.semantic_embedding.vec) > 0

\* cosine_similarity([query_embedding], [chunk_embedding])[0][0], line 402
QuerySimilarity(c) == c.metadata.semantic_embedding.vec[1]

KeepsBefore_unstable(a, b) == a > b

\* list.sort(reverse=True) is stable: an element stays before a later one
\* unless its key is smaller
KeepsBefore(a, b) == a >= b

RECURSIVE SortInsert(_, _)
\* puts the pair x, which came after every pair of the sorted list, in its place
SortInsert(sorted, x) ==
    IF Len(sorted) = 0 THEN <<x>>
    ELSE IF KeepsBefore(sorted[1][1], x[1]) THEN <<sorted[1]>> \o SortInsert(Tail(sorted), x)
    ELSE <<x>> \o sorted

RECURSIVE SortDescending(_, _)
\* similarities.sort(key=lambda x: x[0], reverse=True), line 406
SortDescending(pairs, sorted) ==
    IF Len(pairs) = 0 THEN sorted
    ELSE SortDescending(Tail(pairs), SortInsert(sorted, pairs[1]))

\* similarities, lines 398-403
Similarities(cs) ==
    LET with == SelectSeq(cs, HasEmbedding)
    IN  [k \in 1..Len(with) |-> <<QuerySimilarity(with[k]), with[k]>>]

\* search_similar_chunks, lines 389-407
search_similar_chunks(cs, top_k) ==
    IF Len(cs) = 0 THEN <<>>
    ELSE LET ranked == SliceTo(SortDescending(Similarities(cs), <<>>), top_k)
         IN  [k \in 1..Len(ranked) |-> ranked[k][2]]

Embeddings ==
    {[none |-> TRUE, vec |-> <<>>]} \cup {[none |-> FALSE, vec |-> v] : v \in {<<>>, <<70>>, <<90>>}}

TopKs == {-2, -1, 0, 1, 2, 5}

\* a chunk dict with its embedding, lines 308-325
SearchChunk(i, emb) ==
    [chunk_id |-> ChunkId(DocId, i),
     metadata |-> [chunk_index |-> i, semantic_embedding |-> emb]]

SearchCalls ==
    UNION {{[entry |-> "search_similar_chunks",
             chunks |-> [k \in 1..n |-> SearchChunk(k - 1, emb[k])],
             top_k |-> t] : emb \in [1..n -> Embeddings], t \in TopKs}
              : n \in 0..MaxChunks}

InitSearch ==
    /\ ConsolidationOff
    /\ ChunkerOff
    /\ env \in SearchCalls
    /\ outcome = Pending

SearchSimilarChunks ==
    /\ env.entry = "search_similar_chunks"
    /\ outcome = Pending
    /\ outcome' = Returned(search_similar_chunks(env.chunks, env.top_k))
    /\ UNCHANGED <<env, consVars, chunkVars>>

NextSearch == SearchSimilarChunks

SpecSearch == InitSearch /\ [][NextSearch]_vars

\* the chunks of the input that have an embedding
Candidates(cs) == {k \in 1..Len(cs) : HasEmbedding(cs[k])}

\* chunk a of the input ranks before chunk b: more similar to the query, or
\* as similar and earlier in the input
RanksBefore(cs, a, b) ==
    \/ QuerySimilarity(cs[a]) > QuerySimilarity(cs[b])
    \/ QuerySimilarity(cs[a]) = QuerySimilarity(cs[b]) /\ a < b

\* the position in the input of a returned chunk
InputIndex(c) == c.metadata.chunk_index + 1

\* C19: search_similar_chunks returns chunks that have an embedding, by
\* non-increasing similarity to the query, equally similar chunks in input
\* order, cut to the first top_k (all candidates when top_k is larger);
\* chunks without an embedding are never returned and raise no error.
C19_RankedTopK ==
    (Called("search_similar_chunks") /\ env.top_k >= 0) =>
        /\ outcome.state = "returned"
        /\ LET cs == env.chunks
               out == outcome.value
               idx == [k \in 1..Len(out) |-> InputIndex(out[k])]
           IN  /\ Len(out) = Min(env.top_k, Cardinality(Candidates(cs)))
               /\ \A k \in 1..Len(out) :
                     idx[k] \in Candidates(cs) /\ out[k] = cs[idx[k]]
               /\ \A k \in 1..(Len(out) - 1) : RanksBefore(cs, idx[k], idx[k + 1])
               /\ \A c \in Candidates(cs) \ Range(idx) :
                     \A k \in 1..Len(out) : RanksBefore(cs, idx[k], c)

\* three chunks, the first without an embedding and the other two equally
\* similar to the query; top_k = 1 returns the earlier of the two
C19_Witness ==
    /\ Called("search_similar_chunks")
    /\ Len(env.chunks) = 3 /\ env.top_k = 1
    /\ ~HasEmbedding(env.chunks[1])
    /\ HasEmbedding(env.chunks[2]) /\ HasEmbedding(env.chunks[3])
    /\ QuerySimilarity(env.chunks[2]) = QuerySimilarity(env.chunks[3])
    /\ outcome.value = <<env.chunks[2]>>

\* C20: for every top_k <= 0 and every chunk set search_similar_chunks
\* returns the empty sequence.
C20_NonPositiveTopK ==
    (Called("search_similar_chunks") /\ env.top_k <= 0) =>
        /\ outcome.state = "returned"
        /\ outcome.value = <<>>

-----------------------------------------------------------------------------
(* Repeated runs *)

\* C21: running assembly and annotation twice on the same input with the
\* same configuration yields identical chunks, including the content and the
\* order of each chunk's keywords and legal terms.
C21_Deterministic ==
    (env.entry = "repeat" /\ Len(outcome.runs) = 2) =>
        outcome.runs[1] = outcome.runs[2]

\* len(chunk.keywords) of a chunk of the result: a chunk made of several
\* sources holds the set its keyword list was built from
KeywordCount(c) ==
    IF Len(SourceIndexes(c)) > 1 THEN Cardinality(c.keywords) ELSE Len(c.keywords)

\* C22: every chunk of the final output has at most 10 keywords, whether it
\* was passed through unchanged or formed by merging source chunks: in the
\* result of process_document of advanced_document_processor.py, and in the
\* chunks of advanced-document-processor.py.
C22_KeywordsBounded ==
    /\ (env.entry = "pipeline" /\ pc = "done") =>
          \A k \in 1..Len(result.chunks) : KeywordCount(result.chunks[k]) <= KeywordLimit
    /\ (env.entry = "repeat" /\ env.fn = "keywords") =>
          \A r \in 1..Len(outcome.runs) : \A k \in 1..Len(outcome.runs[r]) :
              Len(outcome.runs[r][k]) <= KeywordLimit

-----------------------------------------------------------------------------
(* The importance score *)

\* the sum the score is made of, in hundredths: 0.1 per distinct legal term
\* matched, 0.2 per case reference, 0.15 per statute reference and 0.05 per
\* entity labelled PERSON, ORG, GPE or LAW
WeightedSum(e) ==
    10 * Cardinality(Range(e.matches))
      + 20 * Len(e.case_refs)
      + 15 * Len(e.statute_refs)
      + 5 * Cardinality({k \in 1..Len(e.entities) :
                           e.entities[k].label \in {"PERSON", "ORG", "GPE", "LAW"}})

\* C23: _calculate_importance_score returns min(1, weighted sum); the result
\* is always within [0, 1], and is 0.0 when the scoring fails.
C23_ImportanceScore ==
    Called("_calculate_importance_score") =>
        /\ outcome.state = "returned"
        /\ outcome.value >= 0 /\ outcome.value <= 100
        /\ outcome.value = IF env.raises THEN 0 ELSE Min(100, WeightedSum(env))

\* the sum exceeds 1, one entity does not count, and the score returned is 1
C23_Witness ==
    /\ Called("_calculate_importance_score")
    /\ ~env.raises
    /\ WeightedSum(env) > 100
    /\ \E k \in 1..Len(env.entities) : env.entities[k].label = "DATE"
    /\ Len(env.matches) > Cardinality(Range(env.matches))
    /\ outcome.value = 100

-----------------------------------------------------------------------------
(* Group membership *)

\* the groups of an output list, each the set of its source indexes
SourceGroups(out) == {Range(SourceIndexes(out[k])) : k \in 1..Len(out)}

\* every group is its anchor a and exactly the chunks j > a that are strictly
\* above the threshold with a and are in no group of an earlier anchor
AnchorDecides(out, n) ==
    \A k \in 1..Len(out) :
        LET G == Range(SourceIndexes(out[k]))
            a == AnchorOf(out[k])
        IN  /\ \A j \in G \ {a} : sim[a][j] > SimThreshold
            /\ \A j \in (a + 1)..(n - 1) :
                  (j \notin G /\ sim[a][j] > SimThreshold) =>
                      \E H \in SourceGroups(out) :
                          /\ j \in H
                          /\ \E b \in H : b < a

\* C24: group membership is decided against the anchor only and with a strict
\* comparison: scanning anchors in index order, an unconsumed chunk j > i joins
\* the group of anchor i if and only if similarity(i, j) > 0.8; similarities
\* between members and to later anchors are not consulted, and a consumed
\* chunk never becomes an anchor (_optimize_chunks_semantically and
\* _merge_chunks).
C24_AnchorOnly ==
    /\ optDone => AnchorDecides(optimized, Len(chunks))
    /\ (pc \in {"merged", "done"} /\ embOk) => AnchorDecides(merged, Len(mchunks))

\* one group of three whose two members are exactly at the threshold with
\* each other
C24_Witness ==
    /\ optDone /\ pc = "merged" /\ embOk
    /\ Len(chunks) = 3
    /\ sim[1][2] = SimThreshold
    /\ Len(optimized) = 1 /\ Len(merged) = 1
    /\ Range(SourceIndexes(optimized[1])) = {0, 1, 2}
    /\ Range(SourceIndexes(merged[1])) = {0, 1, 2}

-----------------------------------------------------------------------------
(* The seed of the next buffer *)

\* the ways to cut n sentences into m consecutive non-empty runs: c[k] is the
\* number of sentences in the first k runs
Cuts(n, m) ==
    {c \in [0..m -> 0..n] :
        /\ c[0] = 0 /\ c[m] = n
        /\ \A k \in 1..m : c[k - 1] < c[k]}

RECURSIVE SeededBuffer(_, _, _, _)
\* the buffer of chunk k when every seal seeds the next buffer with the
\* trailing min(ov, len) characters of the sealed one, followed by the
\* sentences of run k
SeededBuffer(sents, c, k, ov) ==
    LET run == JoinSpace(SubSeq(sents, c[k - 1] + 1, c[k]))
    IN  IF k = 1 THEN run
        ELSE Suffix(SeededBuffer(sents, c, k - 1, ov), ov) \o <<" ">> \o run

\* three sentences of one length, of which two fit in a chunk and three do not
TwoOfThreeFit(sents, mx) ==
    /\ Len(sents) = 3
    /\ Len(sents[1]) = Len(sents[2]) /\ Len(sents[2]) = Len(sents[3])
    /\ 2 * Len(sents[1]) <= mx
    /\ mx < 3 * Len(sents[1]) + 1

\* C25: when create_chunks seals a buffer, the next buffer is seeded with
\* exactly the trailing min(overlap_size, len) characters of the sealed buffer
\* followed by the sentence that triggered the split, for every overlap_size
\* >= 0 (nothing is carried over when overlap_size = 0); and three sentences
\* of one length of which two fit (400 characters with max_chunk_size 1000)
\* yield exactly 2 chunks, the second beginning with at most the trailing
\* overlap_size characters of the first.
C25_SeedIsTrailingOverlap ==
    (cpc = "basic_done" /\ overlap_size >= 0) =>
        LET sents == SegmentedSentences(text)
        IN  /\ \E c \in Cuts(Len(sents), Len(basic)) :
                  \A k \in 1..Len(basic) :
                      basic[k].chunkText = Strip(SeededBuffer(sents, c, k, overlap_size))
            /\ TwoOfThreeFit(sents, max_chunk_size) =>
                  /\ Len(basic) = 2
                  /\ AloneButOverlap(basic, 2, sents[3], overlap_size)

-----------------------------------------------------------------------------
(* Consolidation applied twice *)

\* C26: _optimize_chunks_semantically applied to its own output, each merged
\* chunk keeping the embedding of its anchor, merges nothing further and
\* returns the same chunks in the same order, for every input list and every
\* symmetric similarity relation.
C26_Idempotent ==
    (env.entry = "_optimize_chunks_semantically" /\ outcome.state = "returned") =>
        outcome.value = optimized

\* the first pass merged chunks 0 and 1, whose member 1 is similar to chunk 2
\* while the anchor 0 is not, and the second pass has returned
C26_Witness ==
    /\ env.entry = "_optimize_chunks_semantically" /\ outcome.state = "returned"
    /\ Len(chunks) = 3 /\ Len(optimized) = 2
    /\ sim[0][1] > SimThreshold /\ sim[1][2] > SimThreshold
    /\ ~(sim[0][2] > SimThreshold)
    /\ "merged_from" \in DOMAIN optimized[1].metadata

-----------------------------------------------------------------------------
(* Chunk ids *)

\* no two chunks of the list share a chunk_id
DistinctIds(cs) ==
    \A x, y \in 1..Len(cs) : x # y => cs[x].chunk_id # cs[y].chunk_id

\* C27: chunk_id values are unique within one processing result: before
\* consolidation every chunk of the document has a distinct id of the form
\* {document_id}_chunk_{index}, and after consolidation
\* (_optimize_chunks_semantically and _merge_chunks) no two output chunks
\* share a chunk_id.
C27_UniqueIds ==
    /\ DistinctIds(chunks)
    /\ \A k \in 1..Len(chunks) :
          chunks[k].chunk_id = ChunkId(chunks[k].document_id, chunks[k].metadata.chunk_index)
    /\ DistinctIds(mchunks)
    /\ \A k \in 1..Len(mchunks) :
          mchunks[k].chunk_id = ChunkId(mchunks[k].document_id, mchunks[k].chunk_index)
    /\ optDone => DistinctIds(optimized)
    /\ pc \in {"merged", "done"} => DistinctIds(merged)
    /\ pc = "done" => DistinctIds(result.chunks)

\* chunk 0 absorbed chunk 2 in both consolidations, chunk 1 was passed
\* through between them, and the result was returned
C27_Witness ==
    /\ optDone /\ pc = "done" /\ embOk
    /\ Len(chunks) = 3
    /\ sim[0][2] > SimThreshold /\ ~(sim[0][1] > SimThreshold)
    /\ Len(optimized) = 2 /\ Len(result.chunks) = 2
    /\ optimized[1].chunk_id = MergedId(DocId, 0)

-----------------------------------------------------------------------------
(* The fallback to basic chunking *)

\* C28: process_document of python-document-processor.py falls back to basic
\* chunking whenever the advanced path is unavailable, raises, or reports
\* failure: for non-blank text (and a Word document that can be written) it
\* returns the DocumentChunker chunks with processing_method 'basic'; it
\* reports 'advanced' only when the advanced processor returned a result whose
\* success is true.
C28_FallsBackToBasic ==
    (Called("process_document") /\ env.is_dict /\ Len(Strip(env.text)) > 0
       /\ env.word_ok) =>
        /\ outcome.state = "returned"
        /\ "processing_method" \in DOMAIN outcome.value
        /\ env.advanced # "reports_success" =>
              /\ outcome.value.processing_method = "basic"
              /\ "error" \notin DOMAIN outcome.value
              /\ outcome.value.chunks =
                    create_chunks(env.text, env.max_chunk_size, env.overlap_size)
              /\ outcome.value.chunk_count = Len(outcome.value.chunks)
        /\ outcome.value.processing_method = "advanced" =>
              env.advanced = "reports_success"

\* the advanced processor reported failure, and the call returned two chunks
\* of the basic chunker
C28_Witness ==
    /\ Called("process_document") /\ env.is_dict /\ env.word_ok
    /\ env.advanced = "reports_failure"
    /\ outcome.state = "returned"
    /\ "processing_method" \in DOMAIN outcome.value
    /\ outcome.value.processing_method = "basic"
    /\ Len(outcome.value.chunks) = 2

====
